---- MODULE Spec2Model ----
(***************************************************************************)
(* Model of src/smolagent_ag/retrievers_comparison/compare_bm25_tfidf.py:  *)
(* the tokenizer preprocess, the scorers calculate_tf_idf_sklearn,         *)
(* calculate_tf_idf_manual and calculate_bm25, and run_comparison; of the  *)
(* email workflow of src/langgraph_ag/first_agent.py; and of               *)
(* PDFReader.read_pdf of src/tools/pdf_reader.py.                          *)
(*                                                                         *)
(* Texts are sequences of one-character strings.  Floats are modelled in   *)
(* fixed point: math.log by the integer series Ln (unit 1/LnScale), the    *)
(* BM25 parameters k1 and b in twentieths (k1 = 30 is 1.5, b = 15 is 0.75),*)
(* BM25 scores in units of 1/LnScale, TF-IDF weights in units of           *)
(* 1/IdfScale and cosine similarities in units of 1/SimScale.  A Python    *)
(* exception is modelled as a result whose exc field names it.             *)
(***************************************************************************)
EXTENDS Integers, Sequences, FiniteSets, TLC

VARIABLES
    documents, query, k1, b,     \* the arguments of a scorer call
    call,                        \* the function that has been called
    result,                      \* what the call returned or raised
    raw_text, token_list,        \* the argument and the value of preprocess
    k1_values, b_values, output, \* run_comparison: its arguments, what it printed
    frames,                      \* the calculate_bm25 calls in progress
    email_state, node, executed, \* the email workflow: its EmailState, the
                                 \* node to run next, the nodes that have run
    reader                       \* a call of PDFReader.read_pdf

vars == <<documents, query, call, k1, b, result, raw_text, token_list,
          k1_values, b_values, output, frames,
          email_state, node, executed, reader>>

(***************************************************************************)
(* Bounds of the model                                                     *)
(***************************************************************************)
MaxDocs == 3
MaxTokens == 5
MaxQueryLen == 2

(***************************************************************************)
(* Characters                                                              *)
(***************************************************************************)
LowerLetters == {"a", "b", "c", "d", "f", "g", "i", "k", "o", "q", "u", "x"}
UpperLetters == {"A", "B"}
Digits == {"1"}
Whitespace == {" "}
Punctuation == {"!"}

\* str.lower() on one character (line 37)
LowerChar(c) ==
    CASE c = "A" -> "a"
      [] c = "B" -> "b"
      [] OTHER -> c

\* the regex class \w: letters, digits and the underscore (line 38)
IsWordChar(c) == c \in LowerLetters \cup UpperLetters \cup Digits \cup {"_"}

\* the regex class \s (line 38)
IsSpaceChar(c) == c \in Whitespace

Range(s) == {s[i] : i \in 1..Len(s)}

\* text.lower() (line 37)
LowerText(text) == [i \in 1..Len(text) |-> LowerChar(text[i])]

\* re.sub(r"[^\w\s]", "", text) (line 38): drop what is neither \w nor \s
RECURSIVE RemovePunct(_)
RemovePunct(text) ==
    IF text = <<>> THEN <<>>
    ELSE IF IsWordChar(Head(text)) \/ IsSpaceChar(Head(text))
         THEN <<Head(text)>> \o RemovePunct(Tail(text))
         ELSE RemovePunct(Tail(text))

\* text.split() (line 39): maximal runs of non-whitespace, in order
RECURSIVE SplitFrom(_, _)
SplitFrom(text, cur) ==
    IF text = <<>> THEN (IF cur = <<>> THEN <<>> ELSE <<cur>>)
    ELSE IF IsSpaceChar(Head(text))
         THEN (IF cur = <<>> THEN <<>> ELSE <<cur>>) \o SplitFrom(Tail(text), <<>>)
         ELSE SplitFrom(Tail(text), Append(cur, Head(text)))

Split(text) == SplitFrom(text, <<>>)

\* preprocess (lines 35-39)
preprocess(text) == Split(RemovePunct(LowerText(text)))

(***************************************************************************)
(* Numbers                                                                 *)
(***************************************************************************)
LnScale == 10000
IdfScale == 100
SimScale == 1000
LnTerms == 12

\* floor division that also takes a negative divisor (d # 0)
FloorDiv(n, d) == IF d > 0 THEN n \div d ELSE (0 - n) \div (0 - d)

\* sum of z^(2j+1)/(2j+1) for j = k .. LnTerms, all in units of 1/LnScale
RECURSIVE AtanhSeries(_, _, _)
AtanhSeries(pow, z2, k) ==
    IF k > LnTerms \/ pow = 0 THEN 0
    ELSE pow \div (2 * k + 1) + AtanhSeries((pow * z2) \div LnScale, z2, k + 1)

\* math.log(p / q) for integers p >= q > 0, in units of 1/LnScale:
\* ln x = 2 atanh((x - 1)/(x + 1))
Ln(p, q) ==
    LET z  == ((p - q) * LnScale) \div (p + q)
        z2 == (z * z) \div LnScale
    IN  2 * AtanhSeries(z, z2, 0)

\* math.sqrt, rounded down: bisection on lo <= sqrt(n) < hi
RECURSIVE SqrtBetween(_, _, _)
SqrtBetween(n, lo, hi) ==
    IF hi - lo <= 1 THEN lo
    ELSE LET mid == (lo + hi) \div 2
         IN  IF mid * mid <= n THEN SqrtBetween(n, mid, hi)
             ELSE SqrtBetween(n, lo, mid)

Sqrt(n) == SqrtBetween(n, 0, 32768)

RECURSIVE SumSeq(_)
SumSeq(s) == IF s = <<>> THEN 0 ELSE Head(s) + SumSeq(Tail(s))

RECURSIVE SumOver(_, _)
SumOver(f, S) ==
    IF S = {} THEN 0
    ELSE LET x == CHOOSE y \in S : TRUE IN f[x] + SumOver(f, S \ {x})

(***************************************************************************)
(* Collection statistics                                                   *)
(***************************************************************************)
\* Counter(doc) (lines 108, 115, 180)
Counter(doc) ==
    [term \in Range(doc) |-> Cardinality({i \in 1..Len(doc) : doc[i] = term})]

\* Counter lookup of a possibly absent key: Counter returns 0 (line 196)
CountOf(counter, term) ==
    IF term \in DOMAIN counter THEN counter[term] ELSE 0

\* a plausible slip: occurrences are counted, not documents
DocFreqOccurrences(processed_docs) ==
    [term \in UNION {Range(processed_docs[i]) : i \in 1..Len(processed_docs)} |->
        SumSeq([i \in 1..Len(processed_docs) |->
                   Cardinality({n \in 1..Len(processed_docs[i]) :
                                   processed_docs[i][n] = term})])]

\* all_terms (lines 91-93, 170-172)
AllTerms(processed_docs) ==
    UNION {Range(processed_docs[i]) : i \in 1..Len(processed_docs)}

\* doc_freq (lines 96-98, 169-175)
DocFreq(processed_docs) ==
    [term \in AllTerms(processed_docs) |->
        Cardinality({i \in 1..Len(processed_docs) : term \in Range(processed_docs[i])})]

(***************************************************************************)
(* Results                                                                 *)
(***************************************************************************)
\* a returned list of (document index, score) pairs
Returned(ranking) == [exc |-> "", ranking |-> ranking]

\* an exception that leaves the function
Raised(exc) == [exc |-> exc, ranking |-> <<>>]

\* a number, or the exception raised while computing it
Value(v) == [exc |-> "", val |-> v]

Failure(exc) == [exc |-> exc, val |-> 0]

\* a plausible slip: an entry is put before the entries of equal score
RECURSIVE InsertBeforeEqual(_, _)
InsertBeforeEqual(sorted, e) ==
    IF sorted = <<>> THEN <<e>>
    ELSE IF Head(sorted)[2] > e[2]
         THEN <<Head(sorted)>> \o InsertBeforeEqual(Tail(sorted), e)
         ELSE <<e>> \o sorted

\* list.sort(key=lambda x: x[1], reverse=True) (lines 140, 204): a stable
\* sort, so entries of equal score keep their order in the list
RECURSIVE InsertByScore(_, _)
InsertByScore(sorted, e) ==
    IF sorted = <<>> THEN <<e>>
    ELSE IF Head(sorted)[2] >= e[2]
         THEN <<Head(sorted)>> \o InsertByScore(Tail(sorted), e)
         ELSE <<e>> \o sorted

RECURSIVE SortByScoreDesc(_)
SortByScoreDesc(pairs) ==
    IF pairs = <<>> THEN <<>>
    ELSE InsertByScore(SortByScoreDesc(SubSeq(pairs, 1, Len(pairs) - 1)),
                       pairs[Len(pairs)])

\* a plausible slip: documents[i] = doc.lower() inside the function
DocumentsLoweredInPlace(docs) == [i \in 1..Len(docs) |-> LowerText(docs[i])]

\* the list a function was given, after the call: the scorers only read it,
\* in the comprehensions of lines 87 and 161 and as documents passed on by
\* lines 59, 223, 229 and 237, and assign no element of it
DocumentsAfterCall(docs) == docs

\* [preprocess(doc) for doc in documents] (lines 87, 161)
ProcessedDocs(docs) == [i \in 1..Len(docs) |-> preprocess(docs[i])]

(***************************************************************************)
(* calculate_tf_idf_manual (lines 75-141)                                  *)
(***************************************************************************)
\* a plausible slip: the smoothed idf, math.log(num_docs / df) + 1
TfIdfIdfSmoothed(num_docs, doc_freq) ==
    [term \in DOMAIN doc_freq |->
        (Ln(num_docs, doc_freq[term]) + LnScale) \div (LnScale \div IdfScale)]

\* a plausible slip: math.log((num_docs + 1) / df)
TfIdfIdfOneMoreDoc(num_docs, doc_freq) ==
    [term \in DOMAIN doc_freq |->
        Ln(num_docs + 1, doc_freq[term]) \div (LnScale \div IdfScale)]

\* idf = {term: math.log(num_docs / df)} (lines 101-102), units of 1/IdfScale
TfIdfIdf(num_docs, doc_freq) ==
    [term \in DOMAIN doc_freq |->
        Ln(num_docs, doc_freq[term]) \div (LnScale \div IdfScale)]

\* a plausible slip: idf.get(term, 1)
TfIdfVectorDefaultOne(tokens, idf) ==
    LET term_freq == Counter(tokens)
    IN  [term \in DOMAIN term_freq |->
            term_freq[term] * (IF term \in DOMAIN idf THEN idf[term] ELSE IdfScale)]

\* {term: tf * idf.get(term, 0) for term, tf in Counter(tokens).items()}
\* (lines 108-111 for a document, 115-116 for the query)
TfIdfVector(tokens, idf) ==
    LET term_freq == Counter(tokens)
    IN  [term \in DOMAIN term_freq |->
            term_freq[term] * (IF term \in DOMAIN idf THEN idf[term] ELSE 0)]

\* sum(query_vector[term] * doc_vector[term] for term in common_terms)
\* (lines 122-125)
DotProduct(query_vector, doc_vector) ==
    LET common_terms == DOMAIN query_vector \cap DOMAIN doc_vector
    IN  SumOver([term \in common_terms |-> query_vector[term] * doc_vector[term]],
                common_terms)

\* math.sqrt(sum(val**2 for val in vector.values())) (lines 128-129)
Magnitude(vector) ==
    Sqrt(SumOver([term \in DOMAIN vector |-> vector[term] * vector[term]],
                 DOMAIN vector))

\* a plausible slip: the dot product is divided by doc_mag * doc_mag
CosineSimilarityDocMagTwice(query_vector, doc_vector) ==
    LET dot_product == DotProduct(query_vector, doc_vector)
        query_mag   == Magnitude(query_vector)
        doc_mag     == Magnitude(doc_vector)
    IN  IF query_mag > 0 /\ doc_mag > 0
        THEN Value((dot_product * SimScale) \div (doc_mag * doc_mag))
        ELSE Value(0)

\* a plausible slip: the division of line 133 without the test of line 132
CosineSimilarityUnguarded(query_vector, doc_vector) ==
    LET dot_product == DotProduct(query_vector, doc_vector)
        query_mag   == Magnitude(query_vector)
        doc_mag     == Magnitude(doc_vector)
    IN  IF query_mag * doc_mag = 0 THEN Failure("ZeroDivisionError")
        ELSE Value((dot_product * SimScale) \div (query_mag * doc_mag))

\* the similarity of one document (lines 121-135), units of 1/SimScale;
\* the division of line 133 is only reached with a non-zero divisor
CosineSimilarity(query_vector, doc_vector) ==
    LET dot_product == DotProduct(query_vector, doc_vector)
        query_mag   == Magnitude(query_vector)
        doc_mag     == Magnitude(doc_vector)
    IN  IF query_mag > 0 /\ doc_mag > 0
        THEN Value((dot_product * SimScale) \div (query_mag * doc_mag))
        ELSE Value(0)

\* the similarity of every document (lines 87-135)
TfIdfSimilarities(docs, q) ==
    LET processed_docs  == ProcessedDocs(docs)
        processed_query == preprocess(q)
        idf             == TfIdfIdf(Len(docs), DocFreq(processed_docs))
        query_vector    == TfIdfVector(processed_query, idf)
    IN  [i \in 1..Len(docs) |->
            CosineSimilarity(query_vector, TfIdfVector(processed_docs[i], idf))]

\* similarities.append((i, similarity)) for every document (lines 119-137);
\* document indices from 0
TfIdfScoreList(sims) == [i \in 1..Len(sims) |-> <<i - 1, sims[i].val>>]

calculate_tf_idf_manual(docs, q) ==
    LET sims == TfIdfSimilarities(docs, q)
    IN  IF \E i \in 1..Len(docs) : sims[i].exc # ""
        THEN Raised("ZeroDivisionError")
        ELSE Returned(SortByScoreDesc(TfIdfScoreList(sims)))

(***************************************************************************)
(* calculate_bm25 (lines 147-205)                                          *)
(* k1 and b are given in units of 1/ParamUnit; sum_len is                  *)
(* sum(doc_lengths), so that                                               *)
(* avg_doc_length = sum_len / num_docs is kept as an exact fraction.       *)
(***************************************************************************)
ParamUnit == 20
K1Default == 30
BDefault == 15

\* a plausible slip: the "+ 1" is left out, math.log((num_docs - df + 0.5) /
\* (df + 0.5)), which is negative for a term in more than half the documents
Bm25IdfWithoutOne(num_docs, df) ==
    IF num_docs - df >= df
    THEN Ln(2 * (num_docs - df) + 1, 2 * df + 1)
    ELSE 0 - Ln(2 * df + 1, 2 * (num_docs - df) + 1)

\* math.log((num_docs - df + 0.5) / (df + 0.5) + 1) (line 193),
\* which is ln((2 num_docs + 2) / (2 df + 1)); units of 1/LnScale
Bm25Idf(num_docs, df) == Ln(2 * num_docs + 2, 2 * df + 1)

\* a plausible slip: b is left out of the length term
LenNormWithoutB(doc_len, sum_len, num_docs, bq) ==
    (ParamUnit - bq) * sum_len + ParamUnit * doc_len * num_docs

\* a plausible slip: 1 - b - b * doc_len / avg_doc_length
LenNormMinus(doc_len, sum_len, num_docs, bq) ==
    (ParamUnit - bq) * sum_len - bq * doc_len * num_docs

\* 1 - b + b * doc_len / avg_doc_length (line 197), times ParamUnit * sum_len
LenNorm(doc_len, sum_len, num_docs, bq) ==
    (ParamUnit - bq) * sum_len + bq * doc_len * num_docs

\* a plausible slip: the numerator is k1 + 1 alone
TfNumeratorWithoutTf(tf, k1q) == IF tf = 0 THEN 0 ELSE k1q + ParamUnit

\* tf * (k1 + 1) (line 197), times ParamUnit
TfNumerator(tf, k1q) == tf * (k1q + ParamUnit)

\* a plausible slip: 1 + k1 * (...) in place of tf + k1 * (...)
TfDenominatorOnePlus(tf, doc_len, sum_len, num_docs, k1q, bq) ==
    ParamUnit * ParamUnit * sum_len + k1q * LenNorm(doc_len, sum_len, num_docs, bq)

\* tf + k1 * (1 - b + b * doc_len / avg_doc_length) (line 197),
\* times ParamUnit * ParamUnit * sum_len
TfDenominator(tf, doc_len, sum_len, num_docs, k1q, bq) ==
    ParamUnit * ParamUnit * sum_len * tf
        + k1q * LenNorm(doc_len, sum_len, num_docs, bq)

\* idf * tf_component (lines 193-199) for one query token that is a key of
\* doc_freq, idf being its value of line 193; both divisions of line 197
\* raise ZeroDivisionError on zero
Bm25Contribution(tf, idf, doc_len, sum_len, num_docs, k1q, bq) ==
    LET den == TfDenominator(tf, doc_len, sum_len, num_docs, k1q, bq)
    IN  IF sum_len = 0 \/ den = 0 THEN Failure("ZeroDivisionError")
        ELSE Value(FloorDiv(idf * TfNumerator(tf, k1q) * ParamUnit * sum_len, den))

\* a plausible slip: the loop runs over set(processed_query)
RECURSIVE Bm25DocScoreDistinct(_, _, _, _, _, _, _, _)
Bm25DocScoreDistinct(terms, term_freq, idf, doc_len, sum_len, num_docs, k1q, bq) ==
    IF terms = <<>> THEN Value(0)
    ELSE IF Head(terms) \notin DOMAIN idf \/ Head(terms) \in Range(Tail(terms))
         THEN Bm25DocScoreDistinct(Tail(terms), term_freq, idf, doc_len, sum_len,
                                   num_docs, k1q, bq)
         ELSE LET c == Bm25Contribution(CountOf(term_freq, Head(terms)),
                                        idf[Head(terms)], doc_len, sum_len,
                                        num_docs, k1q, bq)
                  rest == Bm25DocScoreDistinct(Tail(terms), term_freq, idf, doc_len,
                                               sum_len, num_docs, k1q, bq)
              IN  IF c.exc # "" THEN c
                  ELSE IF rest.exc # "" THEN rest
                  ELSE Value(c.val + rest.val)

\* the loop over the query tokens for one document (lines 187-199)
RECURSIVE Bm25DocScore(_, _, _, _, _, _, _, _)
Bm25DocScore(terms, term_freq, idf, doc_len, sum_len, num_docs, k1q, bq) ==
    IF terms = <<>> THEN Value(0)
    ELSE IF Head(terms) \notin DOMAIN idf         \* if term in doc_freq
         THEN Bm25DocScore(Tail(terms), term_freq, idf, doc_len, sum_len,
                           num_docs, k1q, bq)
         ELSE LET c == Bm25Contribution(CountOf(term_freq, Head(terms)),
                                        idf[Head(terms)], doc_len, sum_len,
                                        num_docs, k1q, bq)
                  rest == Bm25DocScore(Tail(terms), term_freq, idf, doc_len,
                                       sum_len, num_docs, k1q, bq)
              IN  IF c.exc # "" THEN c
                  ELSE IF rest.exc # "" THEN rest
                  ELSE Value(c.val + rest.val)

\* the score of every document, or the exception of the scoring loop
\* (lines 161-201); document indices from 0
Bm25Scores(docs, q, k1q, bq) ==
    LET processed_docs  == ProcessedDocs(docs)
        processed_query == preprocess(q)
        sum_len         == SumSeq([i \in 1..Len(docs) |-> Len(processed_docs[i])])
        doc_freq        == DocFreq(processed_docs)
        idf             == [term \in DOMAIN doc_freq |->
                               Bm25Idf(Len(docs), doc_freq[term])]
    IN  [i \in 1..Len(docs) |->
            Bm25DocScore(processed_query, Counter(processed_docs[i]), idf,
                         Len(processed_docs[i]), sum_len, Len(docs), k1q, bq)]

\* a plausible slip: only documents that matched a query term are listed
Bm25ScoreListMatchedOnly(scores) ==
    LET all == [i \in 1..Len(scores) |-> <<i - 1, scores[i].val>>]
        Matched(e) == e[2] # 0
    IN  SelectSeq(all, Matched)

\* scores.append((i, score)) for every document (lines 184-201)
Bm25ScoreList(scores) == [i \in 1..Len(scores) |-> <<i - 1, scores[i].val>>]

calculate_bm25(docs, q, k1q, bq) ==
    IF Len(docs) = 0 THEN Raised("ZeroDivisionError")   \* line 166
    ELSE LET scores == Bm25Scores(docs, q, k1q, bq)
         IN  IF \E i \in 1..Len(docs) : scores[i].exc # ""
             THEN Raised("ZeroDivisionError")           \* line 197
             ELSE Returned(SortByScoreDesc(Bm25ScoreList(scores)))

(***************************************************************************)
(* calculate_tf_idf_sklearn (lines 45-72): TfidfVectorizer() with its      *)
(* default settings, and cosine_similarity                                 *)
(***************************************************************************)
\* the default token_pattern (?u)\b\w\w+\b of TfidfVectorizer (line 56):
\* the maximal runs of \w characters that are two characters or longer
RECURSIVE SklearnTokensFrom(_, _)
SklearnTokensFrom(text, cur) ==
    IF text = <<>> THEN (IF Len(cur) >= 2 THEN <<cur>> ELSE <<>>)
    ELSE IF IsWordChar(Head(text))
         THEN SklearnTokensFrom(Tail(text), Append(cur, Head(text)))
         ELSE (IF Len(cur) >= 2 THEN <<cur>> ELSE <<>>)
              \o SklearnTokensFrom(Tail(text), <<>>)

\* the default analyzer of TfidfVectorizer (line 56): lowercase, then tokens
SklearnTokenize(text) == SklearnTokensFrom(LowerText(text), <<>>)

\* the smoothed idf of TfidfVectorizer (line 59): ln((1 + n) / (1 + df)) + 1,
\* units of 1/IdfScale
SklearnIdf(num_docs, doc_freq) ==
    [term \in DOMAIN doc_freq |->
        Ln(1 + num_docs, 1 + doc_freq[term]) \div (LnScale \div IdfScale) + IdfScale]

\* a row of the matrix of fit_transform or transform (lines 59, 62): the
\* terms of the vocabulary only, tf * idf
SklearnVector(tokens, idf) ==
    LET term_freq == Counter(tokens)
    IN  [term \in DOMAIN term_freq \cap DOMAIN idf |-> term_freq[term] * idf[term]]

\* cosine_similarity (line 65): 0 for a row of zeros
SklearnCosine(query_vector, doc_vector) ==
    LET dot_product == DotProduct(query_vector, doc_vector)
        query_mag   == Magnitude(query_vector)
        doc_mag     == Magnitude(doc_vector)
    IN  IF query_mag > 0 /\ doc_mag > 0
        THEN (dot_product * SimScale) \div (query_mag * doc_mag)
        ELSE 0

\* fit_transform raises ValueError for an empty vocabulary (line 59)
calculate_tf_idf_sklearn(docs, q) ==
    LET analyzed == [i \in 1..Len(docs) |-> SklearnTokenize(docs[i])]
        doc_freq == DocFreq(analyzed)
        idf      == SklearnIdf(Len(docs), doc_freq)
        query_vector == SklearnVector(SklearnTokenize(q), idf)
    IN  IF DOMAIN doc_freq = {} THEN Raised("ValueError")
        ELSE Returned(SortByScoreDesc(
                 [i \in 1..Len(docs) |->
                     <<i - 1, SklearnCosine(query_vector,
                                            SklearnVector(analyzed[i], idf))>>]))

(***************************************************************************)
(* run_comparison (lines 211-240)                                          *)
(***************************************************************************)
\* what print writes: the header of line 220, and the title and the lines
\* of one scorer's results (lines 224-226, 230-232, 238-240)
QueryHeader(q) == <<"QUERY", q>>

SklearnBlock(ranking) == <<"TF-IDF Results (sklearn)", ranking>>

ManualBlock(ranking) == <<"TF-IDF Results (manual implementation)", ranking>>

Bm25Block(k1q, bq, ranking) == <<"BM25 Results", k1q, bq, ranking>>

\* a plausible slip: for k1, b in zip(k1_values, b_values)
SweepPairsZipped(k1s, bs) ==
    [n \in 1..(IF Len(k1s) < Len(bs) THEN Len(k1s) ELSE Len(bs)) |-> <<k1s[n], bs[n]>>]

\* for k1 in k1_values: for b in b_values (lines 235-236)
SweepPairs(k1s, bs) ==
    [n \in 1..(Len(k1s) * Len(bs)) |->
        <<k1s[((n - 1) \div Len(bs)) + 1], bs[((n - 1) % Len(bs)) + 1]>>]

\* the loop body of lines 237-240 for the pairs that are left; the function
\* ends without a return statement and so returns None
RECURSIVE RunBm25(_, _, _, _)
RunBm25(pairs, docs, q, out) ==
    IF pairs = <<>> THEN [output |-> out, result |-> Value("None")]
    ELSE LET bm25_results == calculate_bm25(docs, q, Head(pairs)[1], Head(pairs)[2])
         IN  IF bm25_results.exc # ""
             THEN [output |-> out, result |-> Failure(bm25_results.exc)]
             ELSE RunBm25(Tail(pairs), docs, q,
                          Append(out, Bm25Block(Head(pairs)[1], Head(pairs)[2],
                                                bm25_results.ranking)))

\* docs is the module-level list documents (lines 22-31)
run_comparison(docs, q, k1s, bs) ==
    LET header == <<QueryHeader(q)>>
        tfidf_sklearn_results == calculate_tf_idf_sklearn(docs, q)
        tfidf_manual_results  == calculate_tf_idf_manual(docs, q)
    IN  IF tfidf_sklearn_results.exc # ""
        THEN [output |-> header, result |-> Failure(tfidf_sklearn_results.exc)]
        ELSE IF tfidf_manual_results.exc # ""
        THEN [output |-> Append(header, SklearnBlock(tfidf_sklearn_results.ranking)),
              result |-> Failure(tfidf_manual_results.exc)]
        ELSE RunBm25(SweepPairs(k1s, bs), docs, q,
                     header \o <<SklearnBlock(tfidf_sklearn_results.ranking),
                                 ManualBlock(tfidf_manual_results.ranking)>>)

(***************************************************************************)
(* Inputs                                                                  *)
(***************************************************************************)
\* words joined by single spaces
RECURSIVE JoinWords(_)
JoinWords(words) ==
    IF words = <<>> THEN <<>>
    ELSE IF Len(words) = 1 THEN Head(words)
    ELSE Head(words) \o <<" ">> \o JoinWords(Tail(words))

Words == {<<"a">>, <<"b">>}

\* the text "a ... a b ... b" with na times a and nb times b
DocText(na, nb) ==
    JoinWords([i \in 1..(na + nb) |-> IF i <= na THEN <<"a">> ELSE <<"b">>])

\* the texts of DocText with at most n words
TextsUpTo(n) ==
    UNION {{DocText(na, nb) : nb \in 0..(n - na)} : na \in 0..n}

\* number of words of a text of DocText
WordCount(text) == (Len(text) + 1) \div 2

\* the lists of n texts with at most budget words in all
RECURSIVE ListsOf(_, _)
ListsOf(n, budget) ==
    IF n = 0 THEN {<<>>}
    ELSE UNION {{<<text>> \o rest : rest \in ListsOf(n - 1, budget - WordCount(text))} :
                text \in TextsUpTo(budget)}

\* document lists of at most MaxDocs texts and MaxTokens words in all
Collections == UNION {ListsOf(n, MaxTokens) : n \in 0..MaxDocs}

\* queries of at most MaxQueryLen words
QueryTexts == TextsUpTo(MaxQueryLen)

\* <<k1, b>>: the defaults 1.5 and 0.75, the edge values k1 = 0, b = 0 and
\* b = 1, and the out-of-range values k1 = -0.5 and b = 2
Parameters ==
    {<<K1Default, BDefault>>, <<0, BDefault>>, <<K1Default, 0>>,
     <<K1Default, ParamUnit>>, <<0 - 10, BDefault>>, <<K1Default, 2 * ParamUnit>>}

NoResult == Returned(<<>>)

(***************************************************************************)
(* One call of a scorer on arbitrary arguments                             *)
(***************************************************************************)
Init ==
    /\ documents \in Collections
    /\ query \in QueryTexts
    /\ call = "none"
    /\ k1 = K1Default
    /\ b = BDefault
    /\ result = NoResult
    /\ raw_text = <<>> /\ token_list = <<>>
    /\ k1_values = <<>> /\ b_values = <<>> /\ output = <<>>
    /\ frames = <<>>
    /\ email_state = <<>> /\ node = "none" /\ executed = <<>>
    /\ reader = <<>>

CallTfIdfManual ==
    /\ call = "none"
    /\ call' = "calculate_tf_idf_manual"
    /\ result' = calculate_tf_idf_manual(documents, query)
    /\ documents' = DocumentsAfterCall(documents)
    /\ UNCHANGED <<query, k1, b>>
    /\ UNCHANGED <<raw_text, token_list, k1_values, b_values, output, frames>>
    /\ UNCHANGED <<email_state, node, executed, reader>>

CallBm25 ==
    /\ call = "none"
    /\ \E p \in Parameters :
          /\ k1' = p[1]
          /\ b' = p[2]
          /\ result' = calculate_bm25(documents, query, p[1], p[2])
    /\ call' = "calculate_bm25"
    /\ documents' = DocumentsAfterCall(documents)
    /\ UNCHANGED query
    /\ UNCHANGED <<raw_text, token_list, k1_values, b_values, output, frames>>
    /\ UNCHANGED <<email_state, node, executed, reader>>

Next == CallTfIdfManual \/ CallBm25

Spec == Init /\ [][Next]_vars

(***************************************************************************)
(* What the properties speak about                                         *)
(***************************************************************************)
NumDocs == Len(documents)

\* the token sequences the scorers work on
DocTokens == ProcessedDocs(documents)

QueryTokens == preprocess(query)

\* raw frequency of term in a token sequence
TfIn(tokens, term) == Cardinality({n \in 1..Len(tokens) : tokens[n] = term})

\* the score the returned ranking gives to document i (1-based)
ScoreOf(i) ==
    LET n == CHOOSE m \in 1..Len(result.ranking) : result.ranking[m][1] = i - 1
    IN  result.ranking[n][2]

\* the returned scores by document (1-based)
Scores == [i \in 1..Len(result.ranking) |-> ScoreOf(i)]

ScorerCalled == call \in {"calculate_tf_idf_manual", "calculate_bm25"}

HasReturned == ScorerCalled /\ result.exc = ""

ValidParameters == k1 >= 0 /\ b >= 0 /\ b <= ParamUnit

\* C1: for a non-empty document list and a non-empty query, what either
\* scorer returns has exactly one (index, score) entry per document and its
\* indices are a permutation of 0..N-1; calculate_tf_idf_manual, and
\* calculate_bm25 with its default parameters, do return.
C1_OneEntryPerDocument ==
    (ScorerCalled /\ NumDocs > 0 /\ QueryTokens # <<>>) =>
        /\ (call = "calculate_tf_idf_manual" \/ (k1 = K1Default /\ b = BDefault))
               => result.exc = ""
        /\ result.exc = "" =>
               /\ Len(result.ranking) = NumDocs
               /\ {result.ranking[n][1] : n \in 1..Len(result.ranking)}
                      = 0..(NumDocs - 1)

\* a BM25 ranking of three documents, one of them without any query term,
\* that is not in index order
C1_Witness ==
    /\ call = "calculate_bm25" /\ result.exc = "" /\ ValidParameters
    /\ NumDocs = 3 /\ QueryTokens # <<>>
    /\ Len(result.ranking) = 3
    /\ result.ranking[1][1] = 2
    /\ result.ranking[3][2] = 0

\* C2: a returned ranking is ordered by score descending, and entries of
\* equal score are in ascending document-index order.
C2_DescendingTiesByIndex ==
    HasReturned =>
        \A m, n \in 1..Len(result.ranking) :
            m < n =>
                \/ result.ranking[m][2] > result.ranking[n][2]
                \/ /\ result.ranking[m][2] = result.ranking[n][2]
                   /\ result.ranking[m][1] < result.ranking[n][1]

\* a ranking whose first entry is the last document and whose other two
\* documents tie
C2_Witness ==
    /\ HasReturned /\ Len(result.ranking) = 3
    /\ result.ranking[1][1] = 2
    /\ result.ranking[1][2] > result.ranking[2][2]
    /\ result.ranking[2][2] = result.ranking[3][2]
    /\ result.ranking[2][1] = 0 /\ result.ranking[3][1] = 1

\* C3: on an empty document collection both scorers fail with
\* DegenerateCollectionError and return nothing.
C3_EmptyCollectionFails ==
    (ScorerCalled /\ NumDocs = 0) => result.exc = "DegenerateCollectionError"

\* C4: on a non-empty collection calculate_bm25 completes with a full
\* ranking for every k1 >= 0 and every b in [0,1].
C4_ValidParametersComplete ==
    (call = "calculate_bm25" /\ NumDocs > 0 /\ ValidParameters) =>
        (result.exc = "" /\ Len(result.ranking) = NumDocs)

\* C5: calculate_bm25 with b outside [0,1] or k1 < 0 fails with
\* InvalidParameterError and returns nothing (stated for a non-empty
\* collection, where no other failure is expected).
C5_InvalidParametersRejected ==
    (call = "calculate_bm25" /\ NumDocs > 0 /\ ~ValidParameters) =>
        result.exc = "InvalidParameterError"

\* token sequences di and dj have the same length and the same frequency of
\* every term of qterms but term, whose frequency is not lower in dj
SameButMoreOf(term, di, dj, qterms) ==
    /\ Len(di) = Len(dj)
    /\ TfIn(di, term) <= TfIn(dj, term)
    /\ \A u \in qterms \ {term} : TfIn(di, u) = TfIn(dj, u)

\* C6: with k1 >= 0 and b in [0,1], of two documents of the scored
\* collection that have the same length and the same frequency of every
\* other query term, the one with the higher frequency of a query term has
\* no lower BM25 score.
C6_Bm25MonotoneInTf ==
    (call = "calculate_bm25" /\ result.exc = "" /\ ValidParameters) =>
        LET docs   == DocTokens
            qterms == Range(QueryTokens)
            score  == Scores
        IN  \A i, j \in 1..NumDocs : \A term \in qterms :
                SameButMoreOf(term, docs[i], docs[j], qterms)
                    => score[i] <= score[j]

\* two documents of equal length, the query term once in one and twice in
\* the other, and a strictly higher score for the second
C6_Witness ==
    /\ call = "calculate_bm25" /\ result.exc = "" /\ ValidParameters
    /\ k1 > 0
    /\ \E i, j \in 1..NumDocs : \E term \in Range(QueryTokens) :
          /\ SameButMoreOf(term, DocTokens[i], DocTokens[j], Range(QueryTokens))
          /\ TfIn(DocTokens[i], term) = 1 /\ TfIn(DocTokens[j], term) = 2
          /\ ScoreOf(i) < ScoreOf(j)

\* token sequences di and dj have the same frequency of every term but
\* term, whose frequency is not lower in dj
SameVectorButMoreOf(term, di, dj) ==
    /\ TfIn(di, term) <= TfIn(dj, term)
    /\ \A u \in (Range(di) \cup Range(dj)) \ {term} : TfIn(di, u) = TfIn(dj, u)

\* what rounding to 1/IdfScale and 1/SimScale can add to a similarity
SimTolerance == SimScale \div 40

\* C7 as stated: of two documents that differ only in the frequency of a
\* query term, the one with the higher frequency has no lower TF-IDF
\* cosine score, whatever the number of distinct query terms.
C7_TfIdfMonotoneInTf ==
    (call = "calculate_tf_idf_manual" /\ result.exc = "") =>
        LET docs  == DocTokens
            score == Scores
        IN  \A i, j \in 1..NumDocs : \A term \in Range(QueryTokens) :
                SameVectorButMoreOf(term, docs[i], docs[j])
                    => score[i] <= score[j] + SimTolerance

\* C7 amended: the same, for queries with one distinct term.
C7_TfIdfMonotoneSingleTerm ==
    (call = "calculate_tf_idf_manual" /\ result.exc = ""
        /\ Cardinality(Range(QueryTokens)) = 1) =>
        LET docs  == DocTokens
            score == Scores
        IN  \A i, j \in 1..NumDocs : \A term \in Range(QueryTokens) :
                SameVectorButMoreOf(term, docs[i], docs[j])
                    => score[i] <= score[j]

\* a one-term query, two documents that hold another term once and the
\* query term once and twice, and a strictly higher score for the second
C7_Witness ==
    /\ call = "calculate_tf_idf_manual" /\ result.exc = ""
    /\ Cardinality(Range(QueryTokens)) = 1
    /\ \E i, j \in 1..NumDocs : \E term \in Range(QueryTokens) :
          /\ SameVectorButMoreOf(term, DocTokens[i], DocTokens[j])
          /\ TfIn(DocTokens[i], term) = 1 /\ TfIn(DocTokens[j], term) = 2
          /\ Len(DocTokens[i]) = 2
          /\ 0 < ScoreOf(i) /\ ScoreOf(i) < ScoreOf(j)

\* the BM25 idf of every token of terms that is a key of idf, summed over
\* the token occurrences
RECURSIVE SumOfIdf(_, _)
SumOfIdf(terms, idf) ==
    IF terms = <<>> THEN 0
    ELSE (IF Head(terms) \in DOMAIN idf THEN idf[Head(terms)] ELSE 0)
         + SumOfIdf(Tail(terms), idf)

\* C9: with k1 = 0 the tf_component of every term that occurs in a
\* document is 1 (numerator and denominator of line 197 are equal), and
\* every returned score is the sum of the full idf of the query tokens,
\* whatever their frequency in the document.
C9_K1ZeroSaturates ==
    (call = "calculate_bm25" /\ k1 = 0 /\ NumDocs > 0) =>
        LET docs     == DocTokens
            sum_len  == SumSeq([i \in 1..NumDocs |-> Len(docs[i])])
            doc_freq == DocFreq(docs)
            idf      == [term \in DOMAIN doc_freq |-> Bm25Idf(NumDocs, doc_freq[term])]
            full     == SumOfIdf(QueryTokens, idf)
        IN  /\ \A i \in 1..NumDocs : \A term \in Range(docs[i]) :
                   TfNumerator(TfIn(docs[i], term), k1) * ParamUnit * sum_len
                       = TfDenominator(TfIn(docs[i], term), Len(docs[i]), sum_len,
                                       NumDocs, k1, b)
            /\ result.exc = "" => \A i \in 1..NumDocs : ScoreOf(i) = full

\* k1 = 0, a query term once in one document and at least three times in
\* another, and the same positive score for both
C9_Witness ==
    /\ call = "calculate_bm25" /\ k1 = 0 /\ result.exc = ""
    /\ \E i, j \in 1..NumDocs : \E term \in Range(QueryTokens) :
          /\ TfIn(DocTokens[i], term) = 1 /\ TfIn(DocTokens[j], term) >= 3
          /\ ScoreOf(i) = ScoreOf(j) /\ ScoreOf(i) > 0

\* C10: with b = 0 the length-normalization factor is 1 for every
\* document, and two documents with the same frequency of every query
\* term have the same returned score whatever their lengths.
C10_BZeroIgnoresLength ==
    (call = "calculate_bm25" /\ b = 0 /\ NumDocs > 0) =>
        LET docs    == DocTokens
            sum_len == SumSeq([i \in 1..NumDocs |-> Len(docs[i])])
            qterms  == Range(QueryTokens)
        IN  /\ \A i \in 1..NumDocs :
                   LenNorm(Len(docs[i]), sum_len, NumDocs, b) = ParamUnit * sum_len
            /\ result.exc = "" =>
                   \A i, j \in 1..NumDocs :
                       (\A term \in qterms : TfIn(docs[i], term) = TfIn(docs[j], term))
                           => ScoreOf(i) = ScoreOf(j)

\* b = 0 and k1 = 1.5, two documents of different length that hold the
\* query term equally often, and the same positive score for both
C10_Witness ==
    /\ call = "calculate_bm25" /\ b = 0 /\ k1 = K1Default /\ result.exc = ""
    /\ \E i, j \in 1..NumDocs :
          /\ Len(DocTokens[i]) < Len(DocTokens[j])
          /\ \A term \in Range(QueryTokens) :
                 TfIn(DocTokens[i], term) = TfIn(DocTokens[j], term)
          /\ ScoreOf(i) = ScoreOf(j) /\ ScoreOf(i) > 0

\* the text of the tokens of the query that are not in terms
QueryWithout(terms) ==
    LET Kept(token) == token \notin terms
    IN  JoinWords(SelectSeq(QueryTokens, Kept))

\* the scorer that has been called, on the scored documents and query q
ScorerOn(q) ==
    IF call = "calculate_tf_idf_manual" THEN calculate_tf_idf_manual(documents, q)
    ELSE calculate_bm25(documents, q, k1, b)

\* C11: a query term that occurs in no document contributes nothing: what
\* either scorer gives for a query with such terms is what it gives for the
\* query without them (same scores, same order, and no failure of a lookup).
C11_AbsentQueryTermIgnored ==
    ScorerCalled =>
        LET absent == Range(QueryTokens) \ AllTerms(DocTokens)
        IN  /\ result.exc \in {"", "ZeroDivisionError"}
            /\ absent # {} => result = ScorerOn(QueryWithout(absent))

\* a TF-IDF ranking with a positive score for a query of one term of the
\* collection and one term that is in no document
C11_Witness ==
    /\ call = "calculate_tf_idf_manual" /\ result.exc = ""
    /\ Range(QueryTokens) \ AllTerms(DocTokens) # {}
    /\ Range(QueryTokens) \cap AllTerms(DocTokens) # {}
    /\ NumDocs >= 2
    /\ result.ranking[1][2] > 0

\* C12: a returned BM25 score is the sum, over the distinct query terms
\* that are keys of doc_freq, of the term's number of occurrences in the
\* query times its contribution idf * tf_component for the document.
C12_QueryOccurrencesCount ==
    (call = "calculate_bm25" /\ result.exc = "") =>
        LET docs     == DocTokens
            sum_len  == SumSeq([i \in 1..NumDocs |-> Len(docs[i])])
            doc_freq == DocFreq(docs)
            qtokens  == QueryTokens
            known    == Range(qtokens) \cap DOMAIN doc_freq
        IN  \A i \in 1..NumDocs :
                ScoreOf(i) =
                    SumOver([term \in known |->
                                TfIn(qtokens, term)
                                * Bm25Contribution(TfIn(docs[i], term),
                                      Bm25Idf(NumDocs, doc_freq[term]),
                                      Len(docs[i]), sum_len, NumDocs, k1, b).val],
                            known)

\* a query that holds a term of the collection twice, and a document with a
\* positive score
C12_Witness ==
    /\ call = "calculate_bm25" /\ result.exc = "" /\ ValidParameters
    /\ \E term \in Range(QueryTokens) :
          /\ TfIn(QueryTokens, term) = 2
          /\ term \in AllTerms(DocTokens)
    /\ result.ranking[1][2] > 0

\* C14: calculate_tf_idf_manual always returns, and a document has
\* similarity 0 whenever the norm of the query vector or of its own vector
\* is zero.
C14_ZeroNormScoresZero ==
    call = "calculate_tf_idf_manual" =>
        /\ result.exc = ""
        /\ Len(result.ranking) = NumDocs
        /\ LET docs == DocTokens
               idf  == TfIdfIdf(NumDocs, DocFreq(docs))
               qmag == Magnitude(TfIdfVector(QueryTokens, idf))
           IN  \A i \in 1..NumDocs :
                   (qmag = 0 \/ Magnitude(TfIdfVector(docs[i], idf)) = 0)
                       => ScoreOf(i) = 0

\* a query of non-zero norm, a document with a positive score and a
\* non-empty document whose every term is in all documents (norm zero)
C14_Witness ==
    /\ call = "calculate_tf_idf_manual" /\ result.exc = ""
    /\ NumDocs >= 2
    /\ result.ranking[1][2] > 0
    /\ LET idf == TfIdfIdf(NumDocs, DocFreq(DocTokens))
       IN  \E i \in 1..NumDocs :
               /\ DocTokens[i] # <<>>
               /\ Magnitude(TfIdfVector(DocTokens[i], idf)) = 0
               /\ ScoreOf(i) = 0

\* C15: a term that is in every document has idf 0 and weight 0 in every
\* vector, and the TF-IDF result for a query is the result for that query
\* without such terms.
C15_UniversalTermWeighsNothing ==
    call = "calculate_tf_idf_manual" =>
        LET docs      == DocTokens
            doc_freq  == DocFreq(docs)
            idf       == TfIdfIdf(NumDocs, doc_freq)
            universal == {term \in DOMAIN doc_freq : doc_freq[term] = NumDocs}
        IN  /\ \A term \in universal :
                   /\ idf[term] = 0
                   /\ \A i \in 1..NumDocs : TfIdfVector(docs[i], idf)[term] = 0
                   /\ term \in Range(QueryTokens)
                          => TfIdfVector(QueryTokens, idf)[term] = 0
            /\ universal \cap Range(QueryTokens) # {}
                   => result = calculate_tf_idf_manual(documents, QueryWithout(universal))

\* a query of a term that is in every document and a term that is not, and
\* a document with a positive score
C15_Witness ==
    /\ call = "calculate_tf_idf_manual" /\ result.exc = ""
    /\ NumDocs >= 2
    /\ \E term \in Range(QueryTokens) :
          \A i \in 1..NumDocs : term \in Range(DocTokens[i])
    /\ \E term \in Range(QueryTokens) : \E i \in 1..NumDocs :
          term \notin Range(DocTokens[i])
    /\ result.ranking[1][2] > 0

\* C17: the keys of doc_freq are the terms that occur in some document,
\* and doc_freq[t] is the number of documents that hold t at least once,
\* between 1 and N.
C17_DocFreqCountsDocuments ==
    ScorerCalled =>
        LET docs     == DocTokens
            doc_freq == DocFreq(docs)
        IN  /\ DOMAIN doc_freq
                   = UNION {{docs[i][n] : n \in 1..Len(docs[i])} : i \in 1..NumDocs}
            /\ \A term \in DOMAIN doc_freq :
                   /\ 1 <= doc_freq[term] /\ doc_freq[term] <= NumDocs
                   /\ doc_freq[term]
                          = NumDocs - Cardinality({i \in 1..NumDocs :
                                                      TfIn(docs[i], term) = 0})

\* a term that is three times in one document and in no other has
\* document frequency 1, and another term is in two documents
C17_Witness ==
    /\ ScorerCalled /\ NumDocs = 3
    /\ LET doc_freq == DocFreq(DocTokens)
       IN  /\ \E term \in DOMAIN doc_freq :
                  /\ doc_freq[term] = 1
                  /\ \E i \in 1..NumDocs : TfIn(DocTokens[i], term) = 3
           /\ \E term \in DOMAIN doc_freq : doc_freq[term] = 2

(***************************************************************************)
(* One call of a scorer on the three texts "fox", "fox dog" and            *)
(* "fox dog quick", in any list of one to three of them                    *)
(***************************************************************************)
Fox == <<"f", "o", "x">>
Dog == <<"d", "o", "g">>
Quick == <<"q", "u", "i", "c", "k">>

ScenarioCollection ==
    <<JoinWords(<<Fox>>), JoinWords(<<Fox, Dog>>), JoinWords(<<Fox, Dog, Quick>>)>>

ScenarioQuery == JoinWords(<<Fox, Dog>>)

\* the lists of one to three texts of the collection
ScenarioCollections ==
    UNION {[1..n -> Range(ScenarioCollection)] : n \in 1..Len(ScenarioCollection)}

ScenarioQueries ==
    {ScenarioQuery, JoinWords(<<Fox>>), JoinWords(<<Dog>>), JoinWords(<<Quick>>),
     JoinWords(<<Dog, Quick>>)}

InitScenario ==
    /\ documents \in ScenarioCollections
    /\ query \in ScenarioQueries
    /\ call = "none"
    /\ k1 = K1Default
    /\ b = BDefault
    /\ result = NoResult
    /\ raw_text = <<>> /\ token_list = <<>>
    /\ k1_values = <<>> /\ b_values = <<>> /\ output = <<>>
    /\ frames = <<>>
    /\ email_state = <<>> /\ node = "none" /\ executed = <<>>
    /\ reader = <<>>

SpecScenario == InitScenario /\ [][Next]_vars

\* C13: for ["fox", "fox dog", "fox dog quick"], query "fox dog", k1 = 1.5
\* and b = 0.75, calculate_bm25 returns document 1 first, document 2 second
\* and document 0 last, with score(1) >= score(2) >= score(0).
C13_FoxDogRanking ==
    (/\ call = "calculate_bm25"
     /\ documents = ScenarioCollection /\ query = ScenarioQuery
     /\ k1 = K1Default /\ b = BDefault) =>
        /\ result.exc = ""
        /\ [n \in 1..Len(result.ranking) |-> result.ranking[n][1]] = <<1, 2, 0>>
        /\ ScoreOf(2) >= ScoreOf(3) /\ ScoreOf(3) >= ScoreOf(1)

\* the call of the scenario has returned, with three different scores
C13_Witness ==
    /\ call = "calculate_bm25"
    /\ documents = ScenarioCollection /\ query = ScenarioQuery
    /\ k1 = K1Default /\ b = BDefault
    /\ result.exc = ""
    /\ ScoreOf(2) > ScoreOf(3) /\ ScoreOf(3) > ScoreOf(1) /\ ScoreOf(1) > 0

(***************************************************************************)
(* One call of preprocess on an arbitrary text                             *)
(***************************************************************************)
MaxTextLen == 4

\* a lower-case letter, an upper-case letter, a digit, the underscore, a
\* punctuation character and a whitespace character
TextChars == {"a", "B", "1", "_", "!", " "}

Texts == UNION {[1..n -> TextChars] : n \in 0..MaxTextLen}

InitPreprocess ==
    /\ raw_text \in Texts
    /\ token_list = <<>>
    /\ call = "none"
    /\ documents = <<>> /\ query = <<>>
    /\ k1 = K1Default /\ b = BDefault
    /\ result = NoResult
    /\ k1_values = <<>> /\ b_values = <<>> /\ output = <<>>
    /\ frames = <<>>
    /\ email_state = <<>> /\ node = "none" /\ executed = <<>>
    /\ reader = <<>>

CallPreprocess ==
    /\ call = "none"
    /\ call' = "preprocess"
    /\ token_list' = preprocess(raw_text)
    /\ UNCHANGED <<documents, query, k1, b, result, raw_text,
                   k1_values, b_values, output, frames>>
    /\ UNCHANGED <<email_state, node, executed, reader>>

SpecPreprocess == InitPreprocess /\ [][CallPreprocess]_vars

\* C16: what preprocess returns holds only lower-case letters and digits, no
\* other character (such as an underscore) is left in a token, and the
\* empty string gives the empty sequence.
C16_OnlyAlphanumericTokens ==
    call = "preprocess" =>
        /\ raw_text = <<>> => token_list = <<>>
        /\ \A n \in 1..Len(token_list) : \A m \in 1..Len(token_list[n]) :
               token_list[n][m] \in LowerLetters \cup Digits

(***************************************************************************)
(* One call of run_comparison on the module-level documents                *)
(***************************************************************************)
MaxHarnessDocs == 2

Letter == <<"a">>
UpperLetter == <<"A">>

\* "A fox", "fox dog", "dog" and "a"
HarnessTexts ==
    {JoinWords(<<UpperLetter, Fox>>), JoinWords(<<Fox, Dog>>), JoinWords(<<Dog>>),
     JoinWords(<<Letter>>)}

HarnessCollections == UNION {[1..n -> HarnessTexts] : n \in 0..MaxHarnessDocs}

\* "fox", "a fox", "dog dog" and "quick"
HarnessQueries ==
    {JoinWords(<<Fox>>), JoinWords(<<Letter, Fox>>), JoinWords(<<Dog, Dog>>),
     JoinWords(<<Quick>>)}

\* (1.2, 2.0) and (0.75, 0.5), the defaults of line 211
K1ValuesDefault == <<24, 40>>
BValuesDefault == <<15, 10>>

\* <<k1_values, b_values>>: the defaults, a sweep that holds k1 = 0, one
\* value of each, and no k1 at all
HarnessParameters ==
    {<<K1ValuesDefault, BValuesDefault>>, <<<<0, K1Default>>, BValuesDefault>>,
     <<<<K1Default>>, <<BDefault>>>>, <<<<>>, BValuesDefault>>}

InitHarness ==
    /\ documents \in HarnessCollections
    /\ query \in HarnessQueries
    /\ \E p \in HarnessParameters : k1_values = p[1] /\ b_values = p[2]
    /\ output = <<>>
    /\ call = "none"
    /\ k1 = K1Default /\ b = BDefault
    /\ result = NoResult
    /\ raw_text = <<>> /\ token_list = <<>>
    /\ frames = <<>>
    /\ email_state = <<>> /\ node = "none" /\ executed = <<>>
    /\ reader = <<>>

CallRunComparison ==
    /\ call = "none"
    /\ call' = "run_comparison"
    /\ LET run == run_comparison(documents, query, k1_values, b_values)
       IN  output' = run.output /\ result' = run.result
    /\ documents' = DocumentsAfterCall(documents)
    /\ UNCHANGED <<query, k1, b, raw_text, token_list,
                   k1_values, b_values, frames>>
    /\ UNCHANGED <<email_state, node, executed, reader>>

SpecHarness == InitHarness /\ [][CallRunComparison]_vars

\* C18: in a run of run_comparison every scorer works on the same token
\* sequences: what calculate_tf_idf_sklearn makes of each document and of
\* the query is what preprocess, used by calculate_tf_idf_manual and
\* calculate_bm25, makes of them.
C18_SameTokensForEveryScorer ==
    call = "run_comparison" =>
        /\ \A i \in 1..NumDocs : SklearnTokenize(documents[i]) = preprocess(documents[i])
        /\ SklearnTokenize(query) = preprocess(query)

SweepCollections ==
    UNION {[1..n -> {JoinWords(<<UpperLetter, Fox>>), JoinWords(<<Dog>>)}] :
              n \in 0..MaxHarnessDocs}

\* "fox" and "dog dog"
SweepQueries == {JoinWords(<<Fox>>), JoinWords(<<Dog, Dog>>)}

\* <<k1_values, b_values>>: the defaults, and a sweep that holds k1 = 0
SweepParameters ==
    {<<K1ValuesDefault, BValuesDefault>>, <<<<0, K1Default>>, <<BDefault>>>>}

\* the frame of a call that has not taken a step
NewFrame(k1q, bq) ==
    [k1 |-> k1q, b |-> bq, pc |-> "start", scores |-> <<>>, result |-> NoResult]

InitSweep ==
    /\ documents \in SweepCollections
    /\ query \in SweepQueries
    /\ \E p \in SweepParameters :
          /\ k1_values = p[1] /\ b_values = p[2]
          /\ frames = [w \in 1..Len(SweepPairs(p[1], p[2])) |->
                          NewFrame(SweepPairs(p[1], p[2])[w][1],
                                   SweepPairs(p[1], p[2])[w][2])]
    /\ output = <<>>
    /\ call = "none"
    /\ k1 = K1Default /\ b = BDefault
    /\ result = NoResult
    /\ raw_text = <<>> /\ token_list = <<>>
    /\ email_state = <<>> /\ node = "none" /\ executed = <<>>
    /\ reader = <<>>

\* a plausible slip: scores is a module-level list that every call uses
ScoresOwnerShared(w) == 1

\* scores is a local variable of the call (line 180): the frame that holds
\* the scores list of call w
ScoresOwner(w) == w

\* lines 160-180: the statistics of the collection and scores = []; line
\* 166 raises ZeroDivisionError when there is no document
StartBm25(w) ==
    /\ frames[w].pc = "start"
    /\ IF Len(documents) = 0
       THEN frames' = [frames EXCEPT ![w].pc = "done",
                                     ![w].result = Raised("ZeroDivisionError")]
       ELSE frames' = [frames EXCEPT ![w].pc = "scoring",
                                     ![ScoresOwner(w)].scores = <<>>]
    /\ UNCHANGED <<documents, query, call, k1, b, result, raw_text, token_list,
                   k1_values, b_values, output>>
    /\ UNCHANGED <<email_state, node, executed, reader>>

\* one turn of the loop of lines 184-201: the score of the next document is
\* appended to scores, or line 197 raises ZeroDivisionError
ScoreDocument(w) ==
    /\ frames[w].pc = "scoring"
    /\ Len(frames[ScoresOwner(w)].scores) < Len(documents)
    /\ LET i     == Len(frames[ScoresOwner(w)].scores) + 1
           score == Bm25Scores(documents, query, frames[w].k1, frames[w].b)[i]
       IN  IF score.exc # ""
           THEN frames' = [frames EXCEPT ![w].pc = "done",
                                         ![w].result = Raised(score.exc)]
           ELSE frames' = [frames EXCEPT ![ScoresOwner(w)].scores =
                                             Append(@, <<i - 1, score.val>>)]
    /\ UNCHANGED <<documents, query, call, k1, b, result, raw_text, token_list,
                   k1_values, b_values, output>>
    /\ UNCHANGED <<email_state, node, executed, reader>>

\* lines 203-205: scores.sort(...) and return scores
ReturnBm25(w) ==
    /\ frames[w].pc = "scoring"
    /\ Len(frames[ScoresOwner(w)].scores) >= Len(documents)
    /\ frames' = [frames EXCEPT ![w].pc = "done",
                                ![w].result = Returned(SortByScoreDesc(
                                                  frames[ScoresOwner(w)].scores))]
    /\ UNCHANGED <<documents, query, call, k1, b, result, raw_text, token_list,
                   k1_values, b_values, output>>
    /\ UNCHANGED <<email_state, node, executed, reader>>

NextSweep ==
    \E w \in 1..Len(frames) : StartBm25(w) \/ ScoreDocument(w) \/ ReturnBm25(w)

SpecSweep == InitSweep /\ [][NextSweep]_vars

\* C20: whatever the order in which the calls of a sweep take their steps,
\* every finished call has the result that calculate_bm25 gives for its
\* (k1, b) when run alone, and a call in progress has scored its documents
\* as that run does.
C20_SweepRunsIndependent ==
    \A w \in 1..Len(frames) :
        LET alone == calculate_bm25(documents, query, frames[w].k1, frames[w].b)
        IN  /\ frames[w].pc = "done" => frames[w].result = alone
            /\ (frames[w].pc = "scoring" /\ alone.exc = "") =>
                   \A n \in 1..Len(frames[w].scores) :
                       /\ n <= Len(documents)
                       /\ frames[w].scores[n][1] = n - 1
                       /\ \E m \in 1..Len(alone.ranking) :
                              alone.ranking[m] = frames[w].scores[n]

\* a sweep of four calls on two documents: one call has returned, another
\* has returned a different ranking, and two are half way through their
\* documents
C20_Witness ==
    /\ Len(frames) = 4 /\ Len(documents) = 2
    /\ frames[1].pc = "scoring" /\ Len(frames[1].scores) = 1
    /\ frames[2].pc = "done" /\ frames[2].result.exc = ""
    /\ frames[3].pc = "scoring" /\ Len(frames[3].scores) = 1
    /\ frames[4].pc = "done" /\ frames[4].result.exc = ""
    /\ frames[2].result # frames[4].result

(***************************************************************************)
(* Any sequence of calls of the two scorers and of run_comparison on the   *)
(* same document list and query                                            *)
(***************************************************************************)
InitSession ==
    /\ documents \in SweepCollections
    /\ query \in HarnessQueries
    /\ \E p \in HarnessParameters : k1_values = p[1] /\ b_values = p[2]
    /\ output = <<>>
    /\ call = "none"
    /\ k1 = K1Default /\ b = BDefault
    /\ result = NoResult
    /\ raw_text = <<>> /\ token_list = <<>>
    /\ frames = <<>>
    /\ email_state = <<>> /\ node = "none" /\ executed = <<>>
    /\ reader = <<>>

\* the caller is ready for its next call, with the same list and query
NextCall ==
    /\ call # "none"
    /\ call' = "none"
    /\ UNCHANGED <<documents, query, k1, b, result, raw_text, token_list,
                   k1_values, b_values, output, frames>>
    /\ UNCHANGED <<email_state, node, executed, reader>>

NextSession == CallTfIdfManual \/ CallBm25 \/ CallRunComparison \/ NextCall

SpecSession == InitSession /\ [][NextSession]_vars

C22_NoPartialOutput ==
    (call = "run_comparison" /\ result.exc # "") => Len(output) <= 1

(***************************************************************************)
(* One call of run_comparison on documents whose words all have two        *)
(* letters or more, so that both TF-IDF scorers work on the same tokens    *)
(***************************************************************************)
\* "fox", "dog quick" and "fox dog"
PlainTexts == <<JoinWords(<<Fox>>), JoinWords(<<Dog, Quick>>), JoinWords(<<Fox, Dog>>)>>

\* the lists of one to three of these texts
PlainCollections == UNION {[1..n -> Range(PlainTexts)] : n \in 1..Len(PlainTexts)}

PlainQueries == {JoinWords(<<Fox, Dog>>), JoinWords(<<Fox>>), JoinWords(<<Dog>>)}

InitPlain ==
    /\ documents \in PlainCollections
    /\ query \in PlainQueries
    /\ k1_values = K1ValuesDefault /\ b_values = BValuesDefault
    /\ output = <<>>
    /\ call = "none"
    /\ k1 = K1Default /\ b = BDefault
    /\ result = NoResult
    /\ raw_text = <<>> /\ token_list = <<>>
    /\ frames = <<>>
    /\ email_state = <<>> /\ node = "none" /\ executed = <<>>
    /\ reader = <<>>

SpecPlain == InitPlain /\ [][CallRunComparison]_vars

\* the score a printed ranking gives to document i (1-based)
ScoreIn(ranking, i) ==
    LET n == CHOOSE m \in 1..Len(ranking) : ranking[m][1] = i - 1
    IN  ranking[n][2]

\* C23: the rankings of calculate_tf_idf_sklearn and calculate_tf_idf_manual
\* for the same documents and query agree on the relative order of the
\* documents: a document that the manual scorer puts clearly above another
\* is not put clearly below it by the sklearn scorer.
C23_SameRelativeRanking ==
    (call = "run_comparison" /\ Len(output) >= 3) =>
        \A i, j \in 1..NumDocs :
            ScoreIn(output[3][2], i) > ScoreIn(output[3][2], j) + SimTolerance
                => ScoreIn(output[2][2], i) + SimTolerance >= ScoreIn(output[2][2], j)

\* C24: for k1 > 0 and 0 <= b <= 1 every score that calculate_bm25 returns
\* is >= 0, and it is > 0 exactly for the documents that hold a query term;
\* the BM25 idf of every term of the collection is > 0.
C24_Bm25ScoresNonNegative ==
    (call = "calculate_bm25" /\ result.exc = "" /\ k1 > 0 /\ b >= 0 /\ b <= ParamUnit) =>
        LET docs     == DocTokens
            qterms   == Range(QueryTokens)
            doc_freq == DocFreq(docs)
        IN  /\ \A term \in DOMAIN doc_freq : Bm25Idf(NumDocs, doc_freq[term]) > 0
            /\ \A i \in 1..NumDocs :
                   /\ ScoreOf(i) >= 0
                   /\ ScoreOf(i) > 0 <=> \E term \in qterms : TfIn(docs[i], term) > 0

\* three documents that all hold a query term, two of them with different
\* positive scores
C24_Witness ==
    /\ call = "calculate_bm25" /\ result.exc = "" /\ k1 > 0 /\ b >= 0 /\ b <= ParamUnit
    /\ NumDocs = 3
    /\ \E term \in Range(QueryTokens) :
          \A i \in 1..NumDocs : TfIn(DocTokens[i], term) > 0
    /\ \E i, j \in 1..NumDocs : ScoreOf(i) > ScoreOf(j) /\ ScoreOf(j) > 0

\* C25: every similarity that calculate_tf_idf_manual returns is in [0, 1],
\* every idf weight is >= 0, and a document has a similarity > 0 only if it
\* shares with the query a term that is not in every document.
C25_SimilarityInUnitInterval ==
    call = "calculate_tf_idf_manual" =>
        LET docs     == DocTokens
            qterms   == Range(QueryTokens)
            doc_freq == DocFreq(docs)
            idf      == TfIdfIdf(NumDocs, doc_freq)
        IN  /\ \A term \in DOMAIN idf : idf[term] >= 0
            /\ \A i \in 1..NumDocs :
                   /\ 0 <= ScoreOf(i) /\ ScoreOf(i) <= SimScale
                   /\ ScoreOf(i) > 0 =>
                          \E term \in qterms :
                              /\ TfIn(docs[i], term) > 0
                              /\ doc_freq[term] < NumDocs

\* C26: for a collection of one document calculate_tf_idf_manual returns
\* the score 0 for it whatever the query, and calculate_bm25 with k1 > 0
\* returns a score > 0 for it when it holds a query term.
C26_SingleDocument ==
    (ScorerCalled /\ NumDocs = 1) =>
        /\ call = "calculate_tf_idf_manual" => result = Returned(<<<<0, 0>>>>)
        /\ (/\ call = "calculate_bm25" /\ k1 > 0
            /\ \E term \in Range(QueryTokens) : TfIn(DocTokens[1], term) > 0) =>
               /\ result.exc = ""
               /\ Len(result.ranking) = 1
               /\ result.ranking[1][1] = 0
               /\ result.ranking[1][2] > 0

\* the TF-IDF score 0 of a single document that holds both query terms
C26_Witness ==
    /\ call = "calculate_tf_idf_manual" /\ NumDocs = 1
    /\ Cardinality(Range(QueryTokens)) = 2
    /\ \A term \in Range(QueryTokens) : TfIn(DocTokens[1], term) > 0
    /\ result = Returned(<<<<0, 0>>>>)

\* C27: every token that preprocess returns is non-empty and holds no
\* whitespace, no upper-case letter and no punctuation character (the
\* underscore is one), and preprocess of the tokens joined by single spaces
\* returns the same tokens.
C27_WellFormedIdempotent ==
    call = "preprocess" =>
        /\ \A n \in 1..Len(token_list) :
               /\ token_list[n] # <<>>
               /\ \A m \in 1..Len(token_list[n]) :
                      token_list[n][m] \notin Whitespace \cup UpperLetters
                                                \cup Punctuation \cup {"_"}
        /\ preprocess(JoinWords(token_list)) = token_list

(***************************************************************************)
(* src/langgraph_ag/first_agent.py: the email workflow email_graph.        *)
(* None is the empty sequence and any other value v is <<v>>.  A reply of  *)
(* the LLM to the prompt of classify_email is described by what the code   *)
(* looks for in it.                                                        *)
(***************************************************************************)
None == <<>>

Some(v) == <<v>>

\* the two emails of run_email_example (lines 190-203)
LegitimateEmail ==
    [sender |-> "juan.perez@ejemplo.com", subject |-> "Pregunta sobre sus servicios",
     body |-> "Estimado Sr. Hugg"]

SpamEmail ==
    [sender |-> "ganador@loteria-intl.com", subject |-> "HAS GANADO",
     body |-> "FELICIDADES"]

\* the state given to compiled_graph.invoke (lines 207-216, 220-229)
InitialEmailState(email) ==
    [email |-> email, is_spam |-> None, spam_reason |-> None,
     email_category |-> None, email_draft |-> None, messages |-> <<>>]

\* categories (line 81), "informacion" written without its accent
Categories == <<"consulta", "queja", "agradecimiento", "solicitud", "informacion">>

\* a reply to the prompt of classify_email: whether its lower-cased text
\* holds "spam", holds "ham", what follows "razon:" if it is there, and the
\* categories it names
ClassifyReplies ==
    [spam : BOOLEAN, ham : BOOLEAN, reason : {None, Some("es una estafa")},
     names : SUBSET Range(Categories)]

\* the replies to the prompt of draft_response
DraftReplies == {"Estimado Sr. Perez", ""}

\* "spam" in response_text and "ham" not in response_text (line 73)
IsSpam(reply) == reply.spam /\ ~reply.ham

\* a plausible slip: the reason is taken whenever "razon:" is in the reply
SpamReasonUnguarded(reply) == reply.reason

\* lines 75-77
SpamReason(reply) == IF IsSpam(reply) /\ reply.reason # None THEN reply.reason ELSE None

\* the loop of lines 82-85 from category n on: the first category of the
\* list that the reply names
RECURSIVE FirstCategoryFrom(_, _)
FirstCategoryFrom(n, names) ==
    IF n > Len(Categories) THEN None
    ELSE IF Categories[n] \in names THEN Some(Categories[n])
    ELSE FirstCategoryFrom(n + 1, names)

\* lines 79-85
EmailCategory(reply) ==
    IF ~IsSpam(reply) THEN FirstCategoryFrom(1, reply.names) ELSE None

\* the state after the update that classify_email returns (lines 87-97)
classify_email(state, reply) ==
    [state EXCEPT !.is_spam = Some(IsSpam(reply)),
                  !.spam_reason = SpamReason(reply),
                  !.email_category = EmailCategory(reply),
                  !.messages = state.messages
                      \o <<[role |-> "user", content |-> "classify_email"],
                           [role |-> "assistant", content |-> reply]>>]

\* the state after the update that draft_response returns (lines 126-131)
draft_response(state, reply) ==
    [state EXCEPT !.email_draft = Some(reply),
                  !.messages = state.messages
                      \o <<[role |-> "user", content |-> "draft_response"],
                           [role |-> "assistant", content |-> reply]>>]

\* route_email (lines 150-155): None is not true
route_email(state) == IF state.is_spam = Some(TRUE) THEN "spam" ELSE "legitimate"

\* a plausible slip: add_edge("draft_response", END) and
\* add_edge("notify_mr_hugg", "draft_response")
EdgesDraftLast ==
    [START |-> "read_email", read_email |-> "classify_email",
     handle_spam |-> "END", draft_response |-> "END",
     notify_mr_hugg |-> "draft_response"]

\* add_edge (lines 170, 173, 181-183)
Edges ==
    [START |-> "read_email", read_email |-> "classify_email",
     handle_spam |-> "END", draft_response |-> "notify_mr_hugg",
     notify_mr_hugg |-> "END"]

\* add_conditional_edges (lines 176-178)
ConditionalEdges == [spam |-> "handle_spam", legitimate |-> "draft_response"]

\* the node that runs after node n has left the state as state
NextNode(n, state) ==
    IF n = "classify_email" THEN ConditionalEdges[route_email(state)] ELSE Edges[n]

InitEmail ==
    /\ \E email \in {LegitimateEmail, SpamEmail} :
          email_state = InitialEmailState(email)
    /\ node = "START"
    /\ executed = <<>>
    /\ documents = <<>> /\ query = <<>>
    /\ call = "none"
    /\ k1 = K1Default /\ b = BDefault
    /\ result = NoResult
    /\ raw_text = <<>> /\ token_list = <<>>
    /\ k1_values = <<>> /\ b_values = <<>> /\ output = <<>>
    /\ frames = <<>>
    /\ reader = <<>>

\* compiled_graph.invoke enters the graph at START
Invoke ==
    /\ node = "START"
    /\ node' = NextNode("START", email_state)
    /\ UNCHANGED <<email_state, executed>>
    /\ UNCHANGED <<documents, query, call, k1, b, result, raw_text, token_list,
                   k1_values, b_values, output, frames, reader>>

\* read_email, handle_spam and notify_mr_hugg print and return {}
RunPrintingNode ==
    /\ node \in {"read_email", "handle_spam", "notify_mr_hugg"}
    /\ executed' = Append(executed, node)
    /\ node' = NextNode(node, email_state)
    /\ UNCHANGED email_state
    /\ UNCHANGED <<documents, query, call, k1, b, result, raw_text, token_list,
                   k1_values, b_values, output, frames, reader>>

RunClassifyEmail ==
    /\ node = "classify_email"
    /\ \E reply \in ClassifyReplies :
          /\ email_state' = classify_email(email_state, reply)
          /\ node' = NextNode(node, classify_email(email_state, reply))
    /\ executed' = Append(executed, node)
    /\ UNCHANGED <<documents, query, call, k1, b, result, raw_text, token_list,
                   k1_values, b_values, output, frames, reader>>

RunDraftResponse ==
    /\ node = "draft_response"
    /\ \E reply \in DraftReplies :
          /\ email_state' = draft_response(email_state, reply)
          /\ node' = NextNode(node, draft_response(email_state, reply))
    /\ executed' = Append(executed, node)
    /\ UNCHANGED <<documents, query, call, k1, b, result, raw_text, token_list,
                   k1_values, b_values, output, frames, reader>>

\* model.invoke raises (lines 70, 124): the exception leaves the run
LlmCallRaises ==
    /\ node \in {"classify_email", "draft_response"}
    /\ node' = "FAILED"
    /\ UNCHANGED <<email_state, executed>>
    /\ UNCHANGED <<documents, query, call, k1, b, result, raw_text, token_list,
                   k1_values, b_values, output, frames, reader>>

NextEmail ==
    Invoke \/ RunPrintingNode \/ RunClassifyEmail \/ RunDraftResponse \/ LlmCallRaises

SpecEmail == InitEmail /\ [][NextEmail]_vars

\* the run goes on while a node is left to run
SpecEmailLive == SpecEmail /\ WF_vars(NextEmail)

\* the two ways through the graph
SpamPath == <<"read_email", "classify_email", "handle_spam">>

LegitimatePath == <<"read_email", "classify_email", "draft_response", "notify_mr_hugg">>

IsPrefix(s1, s2) == Len(s1) <= Len(s2) /\ s1 = SubSeq(s2, 1, Len(s1))

\* C28: the nodes of a run are executed in the order read_email,
\* classify_email and then the branch that route_email chooses, handle_spam
\* when is_spam is true and draft_response followed by notify_mr_hugg
\* otherwise (so no node runs twice, notify_mr_hugg never runs before
\* draft_response, and handle_spam and draft_response never both run); a run
\* that is at END has executed one of the two paths in full; and every run
\* ends, at END when the calls of the LLM return.
C28_WorkflowOrder ==
    /\ [](/\ IsPrefix(executed, SpamPath) \/ IsPrefix(executed, LegitimatePath)
          /\ "handle_spam" \in Range(executed) => email_state.is_spam = Some(TRUE)
          /\ "draft_response" \in Range(executed) => email_state.is_spam = Some(FALSE)
          /\ node = "END" => executed \in {SpamPath, LegitimatePath}
          /\ node = "FAILED" => Len(executed) \in {1, 2})
    /\ <>(node \in {"END", "FAILED"})

\* a run on the legitimate branch that has reached END
C28_Witness ==
    /\ node = "END"
    /\ executed = LegitimatePath
    /\ email_state.is_spam = Some(FALSE)

\* C29: once classify_email has run, is_spam true comes with no category and
\* is_spam false with no spam reason; email_draft is set only on the
\* legitimate branch and is None when handle_spam has run; and no step
\* changes the email field.
C29_ClassificationConsistent ==
    /\ [](("classify_email" \in Range(executed)) =>
              /\ email_state.is_spam \in {Some(TRUE), Some(FALSE)}
              /\ email_state.is_spam = Some(TRUE) => email_state.email_category = None
              /\ email_state.is_spam = Some(FALSE) => email_state.spam_reason = None
              /\ email_state.email_draft # None =>
                     /\ email_state.is_spam = Some(FALSE)
                     /\ "draft_response" \in Range(executed)
              /\ "handle_spam" \in Range(executed) => email_state.email_draft = None)
    /\ [][email_state'.email = email_state.email]_vars

\* a run that handled a spam email with a reason, and left no draft
C29_Witness ==
    /\ node = "END"
    /\ executed = SpamPath
    /\ email_state.is_spam = Some(TRUE)
    /\ email_state.spam_reason # None
    /\ email_state.email_category = None
    /\ email_state.email_draft = None

(***************************************************************************)
(* src/tools/pdf_reader.py: one call of PDFReader.read_pdf.  A text is a   *)
(* sequence of one-character strings; what a backend makes of the file is  *)
(* a text or an exception.                                                 *)
(***************************************************************************)
\* re.sub(r" +", " ", text) (line 71)
RECURSIVE CollapseSpaces(_)
CollapseSpaces(text) ==
    IF Len(text) < 2 THEN text
    ELSE IF text[1] = " " /\ text[2] = " " THEN CollapseSpaces(Tail(text))
    ELSE <<Head(text)>> \o CollapseSpaces(Tail(text))

\* text.strip() (line 89)
RECURSIVE Strip(_)
Strip(text) ==
    IF text = <<>> THEN text
    ELSE IF Head(text) = " " THEN Strip(Tail(text))
    ELSE IF text[Len(text)] = " " THEN Strip(SubSeq(text, 1, Len(text) - 1))
    ELSE text

\* _clean_text (lines 55-89) on a text of letters and spaces
CleanText(text, remove_extra_whitespace) ==
    IF text = <<>> THEN <<>>
    ELSE Strip(IF remove_extra_whitespace THEN CollapseSpaces(text) ELSE text)

\* what "\n".join(text_content) can be for a backend (lines 132, 175)
RawTexts == {<<>>, <<"a">>, <<" ", "a", " ", " ", "b", " ">>}

\* what a backend does with the file: it returns a text or raises
BackendOutcomes ==
    {[exc |-> "", text |-> text] : text \in RawTexts}
        \cup {[exc |-> "PDFSyntaxError", text |-> <<>>]}

\* metadata of _extract_with_pdfplumber (line 102)
PdfplumberMetadata == [method |-> "pdfplumber"]

\* a plausible slip: the metadata of _extract_with_pypdf2 is copied from
\* _extract_with_pdfplumber
Pypdf2MetadataCopied == [method |-> "pdfplumber"]

\* metadata of _extract_with_pypdf2 (line 145)
Pypdf2Metadata == [method |-> "PyPDF2"]

\* the call before its first statement; __init__ raises ImportError when
\* neither library is available (lines 49-53)
InitReader ==
    /\ \E exists \in BOOLEAN, plumber \in BOOLEAN, pypdf2 \in BOOLEAN,
          layout \in BOOLEAN, whitespace \in BOOLEAN :
          /\ plumber \/ pypdf2
          /\ reader = [path_exists |-> exists,
                       PDFPLUMBER_AVAILABLE |-> plumber,
                       PYPDF2_AVAILABLE |-> pypdf2,
                       preserve_layout |-> layout,
                       remove_extra_whitespace |-> whitespace,
                       pc |-> "start", tried |-> <<>>,
                       text |-> None, metadata |-> None,
                       returned |-> None, exc |-> ""]
    /\ documents = <<>> /\ query = <<>>
    /\ call = "none"
    /\ k1 = K1Default /\ b = BDefault
    /\ result = NoResult
    /\ raw_text = <<>> /\ token_list = <<>>
    /\ k1_values = <<>> /\ b_values = <<>> /\ output = <<>>
    /\ frames = <<>>
    /\ email_state = <<>> /\ node = "none" /\ executed = <<>>

\* lines 191-212: the path check and the choice of the first backend
CheckPath ==
    /\ reader.pc = "start"
    /\ reader' =
          IF ~reader.path_exists
          THEN [reader EXCEPT !.pc = "done", !.exc = "FileNotFoundError"]
          ELSE IF reader.PDFPLUMBER_AVAILABLE
          THEN [reader EXCEPT !.pc = "pdfplumber"]
          ELSE IF reader.PYPDF2_AVAILABLE
          THEN [reader EXCEPT !.pc = "PyPDF2"]
          ELSE [reader EXCEPT !.pc = "done", !.exc = "RuntimeError"]
    /\ UNCHANGED <<documents, query, call, k1, b, result, raw_text, token_list,
                   k1_values, b_values, output, frames, email_state, node, executed>>

\* lines 198-207: _extract_with_pdfplumber, and what follows its exception
ExtractWithPdfplumber ==
    /\ reader.pc = "pdfplumber"
    /\ \E outcome \in BackendOutcomes :
          reader' =
              LET tried == Append(reader.tried,
                                  [backend |-> "pdfplumber", outcome |-> outcome])
              IN  IF outcome.exc = ""
                  THEN [reader EXCEPT !.tried = tried, !.pc = "clean",
                                      !.text = Some(outcome.text),
                                      !.metadata = Some(PdfplumberMetadata)]
                  ELSE IF reader.PYPDF2_AVAILABLE
                  THEN [reader EXCEPT !.tried = tried, !.pc = "PyPDF2"]
                  ELSE [reader EXCEPT !.tried = tried, !.pc = "done",
                                      !.exc = outcome.exc]
    /\ UNCHANGED <<documents, query, call, k1, b, result, raw_text, token_list,
                   k1_values, b_values, output, frames, email_state, node, executed>>

\* lines 205 and 209: _extract_with_pypdf2; its exception leaves read_pdf
ExtractWithPypdf2 ==
    /\ reader.pc = "PyPDF2"
    /\ \E outcome \in BackendOutcomes :
          reader' =
              LET tried == Append(reader.tried,
                                  [backend |-> "PyPDF2", outcome |-> outcome])
              IN  IF outcome.exc = ""
                  THEN [reader EXCEPT !.tried = tried, !.pc = "clean",
                                      !.text = Some(outcome.text),
                                      !.metadata = Some(Pypdf2Metadata)]
                  ELSE [reader EXCEPT !.tried = tried, !.pc = "done",
                                      !.exc = outcome.exc]
    /\ UNCHANGED <<documents, query, call, k1, b, result, raw_text, token_list,
                   k1_values, b_values, output, frames, email_state, node, executed>>

\* lines 215-217
CleanAndReturn ==
    /\ reader.pc = "clean"
    /\ reader' = [reader EXCEPT
                     !.pc = "done",
                     !.returned = Some(<<CleanText(reader.text[1],
                                                   reader.remove_extra_whitespace),
                                         reader.metadata[1]>>)]
    /\ UNCHANGED <<documents, query, call, k1, b, result, raw_text, token_list,
                   k1_values, b_values, output, frames, email_state, node, executed>>

NextReader == CheckPath \/ ExtractWithPdfplumber \/ ExtractWithPypdf2 \/ CleanAndReturn

SpecReader == InitReader /\ [][NextReader]_vars

\* the backends tried so far, in order
BackendsTried == [n \in 1..Len(reader.tried) |-> reader.tried[n].backend]

\* C30: read_pdf raises FileNotFoundError for a missing path before any
\* backend is tried; otherwise pdfplumber is tried first when it is
\* available and PyPDF2 only when pdfplumber is unavailable or has raised;
\* the method of the returned metadata is the backend whose text is
\* returned; and when the last available backend raises, its exception
\* leaves read_pdf and nothing is returned.
C30_ReadPdfBackends ==
    LET n == Len(reader.tried)
    IN  /\ ~reader.path_exists =>
               /\ n = 0
               /\ reader.pc = "done" =>
                      reader.exc = "FileNotFoundError" /\ reader.returned = None
        /\ BackendsTried \in
               (IF reader.PDFPLUMBER_AVAILABLE
                THEN {<<>>, <<"pdfplumber">>, <<"pdfplumber", "PyPDF2">>}
                ELSE {<<>>, <<"PyPDF2">>})
        /\ n = 2 => reader.tried[1].outcome.exc # "" /\ reader.PYPDF2_AVAILABLE
        /\ (reader.pc = "done" /\ reader.path_exists) =>
               /\ n >= 1
               /\ (n = 1 /\ reader.PDFPLUMBER_AVAILABLE /\ reader.PYPDF2_AVAILABLE)
                      => reader.tried[1].outcome.exc = ""
               /\ reader.tried[n].outcome.exc = "" =>
                      /\ reader.exc = ""
                      /\ reader.returned =
                             Some(<<CleanText(reader.tried[n].outcome.text,
                                              reader.remove_extra_whitespace),
                                    [method |-> reader.tried[n].backend]>>)
               /\ reader.tried[n].outcome.exc # "" =>
                      /\ reader.exc = reader.tried[n].outcome.exc
                      /\ reader.returned = None

\* pdfplumber raised and the text that read_pdf returned is PyPDF2's, cleaned
C30_Witness ==
    /\ reader.pc = "done" /\ reader.exc = ""
    /\ BackendsTried = <<"pdfplumber", "PyPDF2">>
    /\ reader.remove_extra_whitespace
    /\ reader.returned = Some(<<<<"a", " ", "b">>, [method |-> "PyPDF2"]>>)

====
